---- MODULE Spec2Model ----
(***************************************************************************)
(* Model of src/src/scripts/analyze-claude-lines.py: the attribution       *)
(* utility that parses a contribution record file, scans a zero-context    *)
(* diff, maps the record onto the diff file by file and prints a note.     *)
(*                                                                         *)
(* Text is modelled as sequences of one-character strings, so that         *)
(* str.split, str.strip, int(), str(), str.join, str.ljust and re.search   *)
(* are computed the way the interpreter computes them.                     *)
(***************************************************************************)
EXTENDS Integers, Sequences, FiniteSets, TLC

VARIABLES
    pc,                 \* position of the run
    argc,               \* number of positional arguments (len(sys.argv) - 1)
    data,               \* record lines read from the data file so far
    claude_files,       \* parse_claude_data: claude_files (defaultdict(set))
    diff_out,           \* lines of result.stdout scanned so far
    current_file,       \* get_final_diff_lines: current_file
    final_lines,        \* get_final_diff_lines: final_lines (defaultdict(set))
    final_claude_lines, \* map_claude_to_final: final_claude_lines
    note_content,       \* main: note_content
    stdout,             \* what was printed to sys.stdout, in order
    stderr,             \* what was printed to sys.stderr, in order
    exit_status,        \* process exit status, -1 while running
    lines,              \* convert_lines_to_ranges: argument
    ranges_str,         \* convert_lines_to_ranges: result
    reparsed            \* the set read back from ranges_str

vars == <<pc, argc, data, claude_files, diff_out, current_file, final_lines,
          final_claude_lines, note_content, stdout, stderr, exit_status,
          lines, ranges_str, reparsed>>

----------------------------------------------------------------------------
(* Bounds of the model.                                                    *)

\* SpecRanges: line numbers are drawn from (0 - NegLines) .. MaxLine.
NegLines == 1
MaxLine == 10
\* SpecParse: record lines read by one direct call of parse_claude_data.
MaxRecords == 3
\* SpecDiff: diff output lines scanned by one direct call of get_final_diff_lines.
MaxDiffLines == 4
\* Spec (a run of main): record lines and diff output lines of the run.
MainRecords == 1
MainDiffLines == 2
\* SpecMapNote: line numbers of the two mappings are drawn from 1 .. MaxMapLine.
MaxMapLine == 2

----------------------------------------------------------------------------
(* Python text primitives.                                                 *)

\* The characters the inputs use, in code point order.
Alphabet ==
    << "\n", " ", "+", ",", "-", ".", "/",
       "0", "1", "2", "3", "4", "5", "6", "7", "8", "9",
       ":", "@", "a", "b", "c", "d", "h", "x", "|" >>

Ord(c) == CHOOSE i \in 1..Len(Alphabet) : Alphabet[i] = c

DigitChar == << "0", "1", "2", "3", "4", "5", "6", "7", "8", "9" >>

Digits == { DigitChar[i] : i \in 1..10 }

DigitVal(c) == (CHOOSE i \in 1..10 : DigitChar[i] = c) - 1

Whitespace == { " ", "\n" }

\* str(n) of an int: decimal digits, a leading '-' when negative.
RECURSIVE NatStr(_)
NatStr(n) ==
    IF n < 10 THEN << DigitChar[n + 1] >>
    ELSE NatStr(n \div 10) \o << DigitChar[(n % 10) + 1] >>

str(n) == IF n < 0 THEN << "-" >> \o NatStr(0 - n) ELSE NatStr(n)

\* s.strip(): whitespace removed from both ends.
RECURSIVE lstrip(_)
lstrip(s) ==
    IF s # << >> /\ Head(s) \in Whitespace THEN lstrip(Tail(s)) ELSE s

RECURSIVE rstrip(_)
rstrip(s) ==
    IF s # << >> /\ s[Len(s)] \in Whitespace
    THEN rstrip(SubSeq(s, 1, Len(s) - 1))
    ELSE s

strip(s) == rstrip(lstrip(s))

\* s.split(sep) for a one-character separator: always at least one part.
RECURSIVE SplitFrom(_, _, _, _)
SplitFrom(s, sep, part, parts) ==
    IF s = << >> THEN Append(parts, part)
    ELSE IF Head(s) = sep
         THEN SplitFrom(Tail(s), sep, << >>, Append(parts, part))
         ELSE SplitFrom(Tail(s), sep, Append(part, Head(s)), parts)

split(s, sep) == SplitFrom(s, sep, << >>, << >>)

\* sep.join(parts)
RECURSIVE join(_, _)
join(sep, parts) ==
    IF parts = << >> THEN << >>
    ELSE IF Len(parts) = 1 THEN parts[1]
    ELSE parts[1] \o sep \o join(sep, Tail(parts))

startswith(s, prefix) ==
    Len(s) >= Len(prefix) /\ SubSeq(s, 1, Len(prefix)) = prefix

Contains(s, c) == \E i \in 1..Len(s) : s[i] = c

\* The value of a run of decimal digits.
RECURSIVE DigitsValue(_, _)
DigitsValue(s, acc) ==
    IF s = << >> THEN acc
    ELSE DigitsValue(Tail(s), 10 * acc + DigitVal(Head(s)))

\* int(s) of a str: surrounding whitespace is ignored, one leading sign is
\* allowed, and the rest must be a non-empty run of digits; anything else
\* raises ValueError (ok = FALSE).  (Underscore digit separators are not
\* modelled: no input of the model holds one.)
int(s) ==
    LET t == strip(s)
        signed == t # << >> /\ Head(t) \in { "+", "-" }
        body == IF signed THEN Tail(t) ELSE t
        ok == body # << >> /\ \A i \in 1..Len(body) : body[i] \in Digits
    IN  [ ok |-> ok,
          val |-> IF ~ok THEN 0
                  ELSE IF signed /\ Head(t) = "-"
                       THEN 0 - DigitsValue(body, 0)
                       ELSE DigitsValue(body, 0) ]

\* sorted(lines) of a collection of distinct ints.
RECURSIVE sorted(_)
sorted(S) ==
    IF S = {} THEN << >>
    ELSE LET m == CHOOSE x \in S : \A y \in S : x <= y
         IN  << m >> \o sorted(S \ { m })

\* s < t for two str values (code point order).
RECURSIVE StrLess(_, _)
StrLess(s, t) ==
    IF t = << >> THEN FALSE
    ELSE IF s = << >> THEN TRUE
    ELSE IF Head(s) = Head(t) THEN StrLess(Tail(s), Tail(t))
    ELSE Ord(Head(s)) < Ord(Head(t))

\* sorted(keys) of a collection of distinct str values.
RECURSIVE sorted_paths(_)
sorted_paths(S) ==
    IF S = {} THEN << >>
    ELSE LET m == CHOOSE x \in S : \A y \in S \ { x } : StrLess(x, y)
         IN  << m >> \o sorted_paths(S \ { m })

\* A print call: the format text and the values formatted into it.
Msg(fmt, args) == [ fmt |-> fmt, args |-> args ]

\* defaultdict(set)
EmptyMap == [ p \in {} |-> {} ]

\* d[key] on a defaultdict(set): a missing key is inserted with an empty set.
Touch(d, key) == IF key \in DOMAIN d THEN d ELSE d @@ (key :> {})

----------------------------------------------------------------------------
(* convert_lines_to_ranges                                                 *)

\* Lines 120-123 with the end of the range left out of the text.
RangeTokenNoEnd(start, end) == str(start)

\* Lines 120-123 and 127-130: one closed range as text.
RangeToken(start, end) ==
    IF start = end THEN str(start)
    ELSE str(start) \o << "-" >> \o str(end)

\* Line 116 with a step of 2.
ExtendsRunOffByOne(line, end) == line = end + 2

\* Line 116: the test that extends the current range.
ExtendsRun(line, end) == line = end + 1

\* Lines 115-130: the loop over sorted_lines[1:] and the final range.
RECURSIVE MergeRuns(_, _, _, _)
MergeRuns(rest, start, end, ranges) ==
    IF rest = << >> THEN Append(ranges, RangeToken(start, end))
    ELSE LET line == Head(rest)
         IN  IF ExtendsRun(line, end)
             THEN MergeRuns(Tail(rest), start, line, ranges)
             ELSE MergeRuns(Tail(rest), line, line,
                            Append(ranges, RangeToken(start, end)))

convert_lines_to_ranges(ls) ==
    IF ls = {} THEN << >>
    ELSE LET sorted_lines == sorted(ls)
         IN  join(<< "," >>,
                  MergeRuns(Tail(sorted_lines), sorted_lines[1],
                            sorted_lines[1], << >>))

----------------------------------------------------------------------------
(* Inputs.                                                                 *)

\* Paths the inputs name: "a" and "bb".
PathA == << "a" >>

PathBB == << "b", "b" >>

Paths == { PathA, PathBB }

\* Lines of the contribution record file, as iterating the file yields them:
\*   'h|a|10-12,20\n'    a range and a number
\*   'h|a|10-,7\n'       a malformed range, then a number
\*   'h|bb|x,1-2-3,5\n'  a non-numeric token, a token with two '-', a number
\*   'h|bb|x\n'          only a non-numeric token
\*   'h|a|\n'            an empty line specification
\*   'h|bb|3-1\n'        an inverted range
\*   'h|a\n'             two fields
DataLines ==
    { << "h", "|", "a", "|", "1", "0", "-", "1", "2", ",", "2", "0", "\n" >>,
      << "h", "|", "a", "|", "1", "0", "-", ",", "7", "\n" >>,
      << "h", "|", "b", "b", "|", "x", ",", "1", "-", "2", "-", "3", ",", "5", "\n" >>,
      << "h", "|", "b", "b", "|", "x", "\n" >>,
      << "h", "|", "a", "|", "\n" >>,
      << "h", "|", "b", "b", "|", "3", "-", "1", "\n" >>,
      << "h", "|", "a", "\n" >> }

\* Lines of the diff output (result.stdout.split('\n')):
\*   '+++ b/a', '+++ b/bb'   file headers
\*   '+++ b/'                a file header with nothing after the prefix
\*   '@@ -1,2 +10,3 @@'      a hunk with count 3
\*   '@@ -5 +7 @@'           a hunk with the count omitted
\*   '@@ -3,2 +2,0 @@'       a hunk with count 0
\*   '@@ bad @@'             an '@@' line without +<digits>
\*   '--- a/a'               a line that begins with neither '+++' nor '@@'
DiffLines ==
    { << "+", "+", "+", " ", "b", "/", "a" >>,
      << "+", "+", "+", " ", "b", "/", "b", "b" >>,
      << "+", "+", "+", " ", "b", "/" >>,
      << "@", "@", " ", "-", "1", ",", "2", " ", "+", "1", "0", ",", "3", " ", "@", "@" >>,
      << "@", "@", " ", "-", "5", " ", "+", "7", " ", "@", "@" >>,
      << "@", "@", " ", "-", "3", ",", "2", " ", "+", "2", ",", "0", " ", "@", "@" >>,
      << "@", "@", " ", "b", "a", "d", " ", "@", "@" >>,
      << "-", "-", "-", " ", "a", "/", "a" >> }

----------------------------------------------------------------------------
(* parse_claude_data                                                       *)

WarnRange == "Warning: Could not parse range '{range_str}' in file {filepath}"

WarnNumber == "Warning: Could not parse line number '{range_str}' in file {filepath}"

\* Lines 29-40: one token of the line specification.  st = [cf, out]: the
\* mapping built so far and what print has written so far.
\*  - range branch: "start, end = map(int, ...)" raises ValueError (a part
\*    that is no int, or not exactly two parts) before claude_files[filepath]
\*    is evaluated;
\*  - number branch: claude_files[filepath] is evaluated (and inserts the key)
\*    before int(range_str) raises.
ParseRangeStr(st, filepath, token) ==
    LET range_str == strip(token)
    IN  IF Contains(range_str, "-")
        THEN LET parts == split(range_str, "-")
                 ok == Len(parts) = 2 /\ \A i \in 1..Len(parts) : int(parts[i]).ok
             IN  IF ok
                 THEN LET start == int(parts[1]).val
                          end == int(parts[2]).val
                          d == Touch(st.cf, filepath)
                      IN  [ st EXCEPT !.cf = [ d EXCEPT ![filepath] = @ \cup (start..end) ] ]
                 ELSE [ st EXCEPT !.out = Append(@, Msg(WarnRange, << range_str, filepath >>)) ]
        ELSE LET d == Touch(st.cf, filepath)
                 n == int(range_str)
             IN  IF n.ok
                 THEN [ st EXCEPT !.cf = [ d EXCEPT ![filepath] = @ \cup { n.val } ] ]
                 ELSE [ cf |-> d,
                        out |-> Append(st.out, Msg(WarnNumber, << range_str, filepath >>)) ]

\* Line 28: for range_str in ranges.split(',')
RECURSIVE ParseTokens(_, _, _)
ParseTokens(st, filepath, tokens) ==
    IF tokens = << >> THEN st
    ELSE ParseTokens(ParseRangeStr(st, filepath, Head(tokens)), filepath, Tail(tokens))

\* The loop of line 28 as it would be with the try around the whole loop:
\* the first token that raises ends the record line.
RECURSIVE ParseTokensUntilError(_, _, _)
ParseTokensUntilError(st, filepath, tokens) ==
    IF tokens = << >> THEN st
    ELSE LET next == ParseRangeStr(st, filepath, Head(tokens))
         IN  IF Len(next.out) > Len(st.out) THEN next
             ELSE ParseTokensUntilError(next, filepath, Tail(tokens))

ParseRangesUntilError(st, filepath, ranges) ==
    ParseTokensUntilError(st, filepath, split(ranges, ","))

ParseRanges(st, filepath, ranges) ==
    ParseTokens(st, filepath, split(ranges, ","))

\* Lines 23-40: one line of the file.
ParseRecordLine(st, line) ==
    LET parts == split(strip(line), "|")
    IN  IF Len(parts) = 3 THEN ParseRanges(st, parts[2], parts[3]) ELSE st

----------------------------------------------------------------------------
(* get_final_diff_lines                                                    *)

WarnHunk == "Warning: Could not parse hunk header: {line}"

\* current_file = None
None == << >>

\* The index of the last character of the run of digits that starts at i.
RECURSIVE DigitRunEnd(_, _)
DigitRunEnd(s, i) ==
    IF i + 1 <= Len(s) /\ s[i + 1] \in Digits THEN DigitRunEnd(s, i + 1) ELSE i

\* Line 70: re.search(r'\+(\d+)(?:,(\d+))?', line).  The leftmost '+' that a
\* digit follows; group 1 is the whole run of digits; group 2 is the run of
\* digits after a ',' that follows it directly, None when there is none.
re_search(line) ==
    LET starts == { i \in 1..(Len(line) - 1) : line[i] = "+" /\ line[i + 1] \in Digits }
    IN  IF starts = {} THEN [ matched |-> FALSE, g1 |-> None, g2 |-> None ]
        ELSE LET i == CHOOSE x \in starts : \A y \in starts : x <= y
                 e1 == DigitRunEnd(line, i + 1)
                 has2 == e1 + 2 <= Len(line) /\ line[e1 + 1] = ","
                         /\ line[e1 + 2] \in Digits
             IN  [ matched |-> TRUE,
                   g1 |-> SubSeq(line, i + 1, e1),
                   g2 |-> IF has2 THEN SubSeq(line, e1 + 2, DigitRunEnd(line, e1 + 2))
                          ELSE None ]

\* Line 77 with an inclusive upper end.
HunkRangeInclusive(start_line, count) == start_line..(start_line + count)

\* Line 77: range(start_line, start_line + count)
HunkRange(start_line, count) == start_line..(start_line + count - 1)

\* Line 67: current_file = line[6:] if len(line) > 6 else None
HeaderPath(line) ==
    IF Len(line) > 6 THEN SubSeq(line, 7, Len(line)) ELSE None

\* Lines 77-78: a key of final_lines is inserted by the first add only.
AddHunk(fl, file, hunk) ==
    IF hunk = {} THEN fl
    ELSE LET d == Touch(fl, file) IN [ d EXCEPT ![file] = @ \cup hunk ]

\* Lines 65-80: one line of the diff output.  st = [cur, fl, out]: the
\* current file, the mapping built so far, what print has written so far.
\* A str of digits never makes int raise here, so the warning of line 80
\* is written for no line.
ScanDiffLine(st, line) ==
    IF startswith(line, << "+", "+", "+" >>)
    THEN [ st EXCEPT !.cur = HeaderPath(line) ]
    ELSE IF startswith(line, << "@", "@" >>) /\ st.cur # None
    THEN LET match == re_search(line)
         IN  IF ~match.matched THEN st
             ELSE LET s == int(match.g1)
                      c == IF match.g2 # None THEN int(match.g2) ELSE [ ok |-> TRUE, val |-> 1 ]
                  IN  IF s.ok /\ c.ok
                      THEN [ st EXCEPT !.fl = AddHunk(@, st.cur, HunkRange(s.val, c.val)) ]
                      ELSE [ st EXCEPT !.out = Append(@, Msg(WarnHunk, << line >>)) ]
    ELSE st

----------------------------------------------------------------------------
(* map_claude_to_final                                                     *)

\* Lines 96-100 with the numeric intersection in place of the diff set.
map_claude_to_final_intersect(cf, fl) ==
    [ filepath \in (DOMAIN cf) \cap (DOMAIN fl) |-> cf[filepath] \cap fl[filepath] ]

\* Lines 94-102.
map_claude_to_final(cf, fl) ==
    [ filepath \in { f \in DOMAIN cf : f \in DOMAIN fl } |-> fl[filepath] ]

----------------------------------------------------------------------------
(* generate_claude_note                                                    *)

Spaces(n) == [ i \in 1..n |-> " " ]

\* s.rjust(width)
rjust(s, width) == IF Len(s) >= width THEN s ELSE Spaces(width - Len(s)) \o s

\* s.ljust(width)
ljust(s, width) == IF Len(s) >= width THEN s ELSE s \o Spaces(width - Len(s))

Max(S) == CHOOSE x \in S : \A y \in S : y <= x

\* Line 148 with the padding on the left.
padded_path_rjust(filepath, max_length) ==
    rjust(filepath \o << ":" >>, max_length + 2)

\* Line 148: padded_path = f"{filepath}:".ljust(max_length + 2)
padded_path(filepath, max_length) ==
    ljust(filepath \o << ":" >>, max_length + 2)

Header1 == << "c", "l", "a", "u", "d", "e", "-", "w", "a", "s", "-", "h", "e", "r", "e" >>

Header2 == << "v", "e", "r", "s", "i", "o", "n", ":", " ", "1", ".", "0" >>

\* Lines 144-149: the file lines, in the order of sorted(keys).
RECURSIVE FileLines(_, _, _)
FileLines(fcl, keys, max_length) ==
    IF keys = << >> THEN << >>
    ELSE LET filepath == Head(keys)
             r == convert_lines_to_ranges(fcl[filepath])
             rest == FileLines(fcl, Tail(keys), max_length)
         IN  IF r # << >>
             THEN << padded_path(filepath, max_length) \o << " " >> \o r >> \o rest
             ELSE rest

\* Lines 137-149: the list "lines".
NoteLines(fcl) ==
    << Header1, Header2 >> \o
    ( IF DOMAIN fcl # {}
      THEN FileLines(fcl, sorted_paths(DOMAIN fcl),
                     Max({ Len(path) : path \in DOMAIN fcl }))
      ELSE << >> )

\* Line 151: '\n'.join(lines)
generate_claude_note(fcl) == join(<< "\n" >>, NoteLines(fcl))

----------------------------------------------------------------------------
(* The run of main, and direct calls of its functions.                     *)

\* Number of positional arguments a run may be given: 0 .. MaxArgc.
MaxArgc == 3

Usage1 == "Usage: python analyze_claude_lines.py <claude_data_file> <base_commit> <latest_commit>"

Usage2 == ""

Usage3 == "This script analyzes Claude Code contributions across commits and maps them"

Usage4 == "to the final diff, generating accurate attribution for squashed commits."

ErrNotFound == "Error: Could not find Claude data file: {filename}"

ErrParse == "Error parsing Claude data: {e}"

ErrDiff == "Error running git diff: {e}"

FoundFiles == "Found Claude contributions in {len(claude_files)} files"

DiffFiles == "Final diff affects {len(final_lines)} files"

NoteText == "{note_content}"

parseVars == << data, claude_files >>

diffVars == << diff_out, current_file, final_lines >>

outVars == << final_claude_lines, note_content >>

rangeVars == << lines, ranges_str, reparsed >>

\* State before the first statement of main.
Init ==
    /\ pc = "main"
    /\ argc \in 0..MaxArgc
    /\ data = << >>
    /\ claude_files = EmptyMap
    /\ diff_out = << >>
    /\ current_file = None
    /\ final_lines = EmptyMap
    /\ final_claude_lines = EmptyMap
    /\ note_content = << >>
    /\ stdout = << >>
    /\ stderr = << >>
    /\ exit_status = -1
    /\ lines = {}
    /\ ranges_str = << >>
    /\ reparsed = {}

\* main, lines 156-165: the argument-count check.
MainArgs ==
    /\ pc = "main"
    /\ IF argc < 3
       THEN /\ stdout' = stdout \o << Msg(Usage1, << >>), Msg(Usage2, << >>),
                                      Msg(Usage3, << >>), Msg(Usage4, << >>) >>
            /\ exit_status' = 1
            /\ pc' = "exit"
       ELSE /\ pc' = "parse_open"
            /\ UNCHANGED << stdout, exit_status >>
    /\ UNCHANGED << argc, parseVars, diffVars, outVars, stderr, rangeVars >>

\* parse_claude_data, lines 18-21: open(filename) succeeds.
OpenDataFile ==
    /\ pc = "parse_open"
    /\ pc' = "parse_read"
    /\ UNCHANGED << argc, parseVars, diffVars, outVars, stdout, stderr,
                    exit_status, rangeVars >>

\* parse_claude_data, lines 41-43: open raises FileNotFoundError.
DataFileNotFound ==
    /\ pc = "parse_open"
    /\ stdout' = Append(stdout, Msg(ErrNotFound, << >>))
    /\ claude_files' = EmptyMap
    /\ pc' = "parse_ret"
    /\ UNCHANGED << argc, data, diffVars, outVars, stderr, exit_status, rangeVars >>

\* parse_claude_data, lines 44-46: open, or reading a line, raises another
\* exception; what was parsed so far is dropped.
DataFileError ==
    /\ pc \in { "parse_open", "parse_read" }
    /\ stdout' = Append(stdout, Msg(ErrParse, << >>))
    /\ claude_files' = EmptyMap
    /\ pc' = "parse_ret"
    /\ UNCHANGED << argc, data, diffVars, outVars, stderr, exit_status, rangeVars >>

\* parse_claude_data, lines 22-40: one iteration of "for line in f".
ReadRecord(max) ==
    /\ pc = "parse_read"
    /\ Len(data) < max
    /\ \E line \in DataLines :
          LET st == ParseRecordLine([ cf |-> claude_files, out |-> stdout ], line)
          IN  /\ data' = Append(data, line)
              /\ claude_files' = st.cf
              /\ stdout' = st.out
    /\ UNCHANGED << pc, argc, diffVars, outVars, stderr, exit_status, rangeVars >>

\* parse_claude_data, line 48: the file is exhausted.
EndOfData ==
    /\ pc = "parse_read"
    /\ pc' = "parse_ret"
    /\ UNCHANGED << argc, parseVars, diffVars, outVars, stdout, stderr,
                    exit_status, rangeVars >>

\* main, lines 168-172: the count goes to stderr, the diff is asked for.
MainAfterParse ==
    /\ pc = "parse_ret"
    /\ stderr' = Append(stderr, Msg(FoundFiles, << str(Cardinality(DOMAIN claude_files)) >>))
    /\ pc' = "diff_run"
    /\ UNCHANGED << argc, parseVars, diffVars, outVars, stdout, exit_status, rangeVars >>

\* get_final_diff_lines, lines 53-62: git diff exits with status 0.
RunDiff ==
    /\ pc = "diff_run"
    /\ final_lines' = EmptyMap
    /\ current_file' = None
    /\ pc' = "diff_scan"
    /\ UNCHANGED << argc, parseVars, diff_out, outVars, stdout, stderr,
                    exit_status, rangeVars >>

\* Lines 57-59 without the except clause: CalledProcessError leaves main and
\* the interpreter ends the run with a traceback and status 1.
RunDiffRaises ==
    /\ pc = "diff_run"
    /\ stderr' = Append(stderr, Msg("Traceback (most recent call last):", << >>))
    /\ exit_status' = 1
    /\ pc' = "exit"
    /\ UNCHANGED << argc, parseVars, diffVars, outVars, stdout, rangeVars >>

\* get_final_diff_lines, lines 57-59: git diff exits with a non-zero status
\* (CalledProcessError).
RunDiffFails ==
    /\ pc = "diff_run"
    /\ stdout' = Append(stdout, Msg(ErrDiff, << >>))
    /\ final_lines' = EmptyMap
    /\ pc' = "diff_ret"
    /\ UNCHANGED << argc, parseVars, diff_out, current_file, outVars, stderr,
                    exit_status, rangeVars >>

\* get_final_diff_lines, lines 64-80: one iteration of the loop over the output.
ScanLine(max) ==
    /\ pc = "diff_scan"
    /\ Len(diff_out) < max
    /\ \E line \in DiffLines :
          LET st == ScanDiffLine([ cur |-> current_file, fl |-> final_lines,
                                   out |-> stdout ], line)
          IN  /\ diff_out' = Append(diff_out, line)
              /\ current_file' = st.cur
              /\ final_lines' = st.fl
              /\ stdout' = st.out
    /\ UNCHANGED << pc, argc, parseVars, outVars, stderr, exit_status, rangeVars >>

\* get_final_diff_lines, line 82: the output is exhausted.
EndOfDiff ==
    /\ pc = "diff_scan"
    /\ pc' = "diff_ret"
    /\ UNCHANGED << argc, parseVars, diffVars, outVars, stdout, stderr,
                    exit_status, rangeVars >>

\* main, lines 173-176: the count goes to stderr, the mapping is made.
MainMap ==
    /\ pc = "diff_ret"
    /\ stderr' = Append(stderr, Msg(DiffFiles, << str(Cardinality(DOMAIN final_lines)) >>))
    /\ final_claude_lines' = map_claude_to_final(claude_files, final_lines)
    /\ pc' = "mapped"
    /\ UNCHANGED << argc, parseVars, diffVars, note_content, stdout, exit_status,
                    rangeVars >>

\* main, lines 179-180: the note is generated and printed; the run ends.
MainNote ==
    /\ pc = "mapped"
    /\ note_content' = generate_claude_note(final_claude_lines)
    /\ stdout' = Append(stdout, Msg(NoteText, << generate_claude_note(final_claude_lines) >>))
    /\ exit_status' = 0
    /\ pc' = "done"
    /\ UNCHANGED << argc, parseVars, diffVars, final_claude_lines, stderr, rangeVars >>

Next ==
    \/ MainArgs
    \/ OpenDataFile
    \/ DataFileNotFound
    \/ DataFileError
    \/ ReadRecord(MainRecords)
    \/ EndOfData
    \/ MainAfterParse
    \/ RunDiff
    \/ RunDiffFails
    \/ ScanLine(MainDiffLines)
    \/ EndOfDiff
    \/ MainMap
    \/ MainNote

\* A run of the program.
Spec == Init /\ [][Next]_vars

----------------------------------------------------------------------------
(* parse_claude_data called on its own.                                    *)

InitParse ==
    /\ pc = "parse_open"
    /\ argc = 0
    /\ data = << >>
    /\ claude_files = EmptyMap
    /\ diff_out = << >>
    /\ current_file = None
    /\ final_lines = EmptyMap
    /\ final_claude_lines = EmptyMap
    /\ note_content = << >>
    /\ stdout = << >>
    /\ stderr = << >>
    /\ exit_status = -1
    /\ lines = {}
    /\ ranges_str = << >>
    /\ reparsed = {}

NextParse ==
    \/ OpenDataFile
    \/ DataFileNotFound
    \/ DataFileError
    \/ ReadRecord(MaxRecords)
    \/ EndOfData

SpecParse == InitParse /\ [][NextParse]_vars

----------------------------------------------------------------------------
(* get_final_diff_lines called on its own.                                 *)

InitDiff ==
    /\ pc = "diff_run"
    /\ argc = 0
    /\ data = << >>
    /\ claude_files = EmptyMap
    /\ diff_out = << >>
    /\ current_file = None
    /\ final_lines = EmptyMap
    /\ final_claude_lines = EmptyMap
    /\ note_content = << >>
    /\ stdout = << >>
    /\ stderr = << >>
    /\ exit_status = -1
    /\ lines = {}
    /\ ranges_str = << >>
    /\ reparsed = {}

NextDiff ==
    \/ RunDiff
    \/ RunDiffFails
    \/ ScanLine(MaxDiffLines)
    \/ EndOfDiff

SpecDiff == InitDiff /\ [][NextDiff]_vars

----------------------------------------------------------------------------
(* convert_lines_to_ranges called on any set of line numbers, and its      *)
(* result read back the way parse_claude_data reads a line specification.  *)

LineNumbers == (0 - NegLines)..MaxLine

InitRanges ==
    /\ pc = "convert"
    /\ lines \in SUBSET LineNumbers
    /\ argc = 0
    /\ data = << >>
    /\ claude_files = EmptyMap
    /\ diff_out = << >>
    /\ current_file = None
    /\ final_lines = EmptyMap
    /\ final_claude_lines = EmptyMap
    /\ note_content = << >>
    /\ stdout = << >>
    /\ stderr = << >>
    /\ exit_status = -1
    /\ ranges_str = << >>
    /\ reparsed = {}

\* ranges_str = convert_lines_to_ranges(list(line_set))
Convert ==
    /\ pc = "convert"
    /\ ranges_str' = convert_lines_to_ranges(lines)
    /\ pc' = "reparse"
    /\ UNCHANGED << argc, parseVars, diffVars, outVars, stdout, stderr,
                    exit_status, lines, reparsed >>

\* The text is read back by lines 28-40 as the line specification of one file.
Reparse ==
    /\ pc = "reparse"
    /\ LET st == ParseRanges([ cf |-> EmptyMap, out |-> stdout ], PathA, ranges_str)
       IN  /\ reparsed' = IF PathA \in DOMAIN st.cf THEN st.cf[PathA] ELSE {}
           /\ stdout' = st.out
    /\ pc' = "reparsed"
    /\ UNCHANGED << argc, parseVars, diffVars, outVars, stderr, exit_status,
                    lines, ranges_str >>

NextRanges ==
    \/ Convert
    \/ Reparse

SpecRanges == InitRanges /\ [][NextRanges]_vars

----------------------------------------------------------------------------
(* map_claude_to_final and generate_claude_note called on any pair of      *)
(* mappings the parser and the diff extractor can return.                  *)

\* A ContributionRecord: parse_claude_data can return a key with an empty set.
RecordMaps ==
    UNION { [ S -> SUBSET (1..MaxMapLine) ] : S \in SUBSET Paths }

\* A DiffLineSet: get_final_diff_lines inserts a key only with a line.
DiffMaps ==
    UNION { [ S -> (SUBSET (1..MaxMapLine)) \ { {} } ] : S \in SUBSET Paths }

InitMapNote ==
    /\ pc = "map_call"
    /\ claude_files \in RecordMaps
    /\ final_lines \in DiffMaps
    /\ argc = 0
    /\ data = << >>
    /\ diff_out = << >>
    /\ current_file = None
    /\ final_claude_lines = EmptyMap
    /\ note_content = << >>
    /\ stdout = << >>
    /\ stderr = << >>
    /\ exit_status = -1
    /\ lines = {}
    /\ ranges_str = << >>
    /\ reparsed = {}

\* final_claude_lines = map_claude_to_final(claude_files, final_lines)
CallMap ==
    /\ pc = "map_call"
    /\ final_claude_lines' = map_claude_to_final(claude_files, final_lines)
    /\ pc' = "note_call"
    /\ UNCHANGED << argc, parseVars, diffVars, note_content, stdout, stderr,
                    exit_status, rangeVars >>

\* note_content = generate_claude_note(final_claude_lines)
CallNote ==
    /\ pc = "note_call"
    /\ note_content' = generate_claude_note(final_claude_lines)
    /\ pc' = "note_ret"
    /\ UNCHANGED << argc, parseVars, diffVars, final_claude_lines, stdout, stderr,
                    exit_status, rangeVars >>

NextMapNote ==
    \/ CallMap
    \/ CallNote

SpecMapNote == InitMapNote /\ [][NextMapNote]_vars

----------------------------------------------------------------------------
(* Claims about convert_lines_to_ranges (SpecRanges).                      *)

\* The maximal runs of consecutive numbers of S, as pairs <<first, last>>.
MaximalRuns(S) ==
    { r \in S \X S :
        /\ r[1] <= r[2]
        /\ \A n \in r[1]..r[2] : n \in S
        /\ (r[1] - 1) \notin S
        /\ (r[2] + 1) \notin S }

\* A run as the claim renders it: the bare number, or 'start-end'.
RunText(r) ==
    IF r[1] = r[2] THEN str(r[1]) ELSE str(r[1]) \o << "-" >> \o str(r[2])

\* C8: the text returned by convert_lines_to_ranges is empty exactly for
\* the empty set; otherwise its comma-separated tokens are, one for one and
\* in ascending order, the maximal runs of consecutive numbers of the set
\* (each token starts at least 2 above the end of the token before it, so no
\* number is covered twice), a run of one number rendered as the bare number
\* and a longer run as 'start-end'.
C8_TokensAreMaximalRuns ==
    pc # "convert" =>
        LET toks == IF ranges_str = << >> THEN << >> ELSE split(ranges_str, ",")
            runs == MaximalRuns(lines)
        IN  /\ (lines = {}) <=> (ranges_str = << >>)
            /\ Len(toks) = Cardinality(runs)
            /\ \A i \in 1..Len(toks) :
                  \E r \in runs :
                     /\ toks[i] = RunText(r)
                     /\ i > 1 => \E q \in runs : /\ toks[i - 1] = RunText(q)
                                                 /\ r[1] >= q[2] + 2

\* A set with a run of several numbers that crosses from one digit to two,
\* a single number and a negative number has been converted.
C8_Witness ==
    /\ pc = "reparse"
    /\ lines = { -1, 3, 8, 9, 10 }
    /\ ranges_str = << "-", "1", ",", "3", ",", "8", "-", "1", "0" >>

\* C2: for a set of line numbers (none negative), reading the text of
\* convert_lines_to_ranges back as a line specification (tokens N or A-B,
\* as lines 28-40 read them) gives the same set.
C2_RoundTrip ==
    (pc = "reparsed" /\ \A n \in lines : n >= 0) => reparsed = lines

\* A set with a range, a single number and two-digit numbers was converted
\* and read back.
C2_Witness ==
    /\ pc = "reparsed"
    /\ lines = { 0, 2, 3, 4, 9, 10 }
    /\ reparsed = lines
    /\ stdout = << >>

----------------------------------------------------------------------------
(* Claims about map_claude_to_final and generate_claude_note (SpecMapNote).*)

\* C1: the keys of the mapping map_claude_to_final returns are exactly the
\* paths that are keys of both arguments, and the value of each is the whole
\* set the diff mapping holds for it.
C1_MapIsFileLevel ==
    pc \in { "note_call", "note_ret" } =>
        /\ DOMAIN final_claude_lines = (DOMAIN claude_files) \cap (DOMAIN final_lines)
        /\ \A path \in DOMAIN final_claude_lines :
              final_claude_lines[path] = final_lines[path]

\* The mapping was made from a record and a diff that share one path whose
\* two sets differ, the diff holding another path besides.
C1_Witness ==
    /\ pc = "note_call"
    /\ PathA \in DOMAIN claude_files
    /\ PathBB \notin DOMAIN claude_files
    /\ DOMAIN final_lines = Paths
    /\ claude_files[PathA] = { 1 }
    /\ final_lines[PathA] = { 2 }
    /\ final_claude_lines = (PathA :> { 2 })

\* The file lines of the note: what follows the two header lines.
NoteFileLines ==
    LET ls == split(note_content, "\n") IN SubSeq(ls, 3, Len(ls))

\* The column of the first ':' of a line.
ColonColumn(l) == CHOOSE i \in 1..Len(l) : l[i] = ":" /\ \A j \in 1..(i - 1) : l[j] # ":"

\* C6 as stated: the ':' after the path is at the same column on every
\* file line of the note.
C6_ColonsAligned ==
    pc = "note_ret" =>
        \A i, j \in 1..Len(NoteFileLines) :
            ColonColumn(NoteFileLines[i]) = ColonColumn(NoteFileLines[j])

\* Line l is path, ':' directly after it, spaces up to column width, one
\* more space, and then text.
FileLineShape(l, path, width, text) ==
    /\ Len(l) = width + 1 + Len(text)
    /\ SubSeq(l, 1, Len(path)) = path
    /\ l[Len(path) + 1] = ":"
    /\ \A k \in (Len(path) + 2)..(width + 1) : l[k] = " "
    /\ SubSeq(l, width + 2, Len(l)) = text

\* C6 (amended): the note has one file line per path with a non-empty set;
\* on each the ':' directly follows the path and the range text starts at the
\* same column, (longest path length + 2) + 1 characters in, the path and
\* colon being padded on the right with spaces.
C6_RangesAligned ==
    pc = "note_ret" =>
        LET shown == { path \in DOMAIN final_claude_lines : final_claude_lines[path] # {} }
            width == IF DOMAIN final_claude_lines = {} THEN 0
                     ELSE Max({ Len(path) : path \in DOMAIN final_claude_lines }) + 2
        IN  /\ Len(NoteFileLines) = Cardinality(shown)
            /\ \A path \in shown :
                  \E i \in 1..Len(NoteFileLines) :
                     FileLineShape(NoteFileLines[i], path, width,
                                   convert_lines_to_ranges(final_claude_lines[path]))

\* A note with file lines for two paths of different lengths was generated.
C6_Witness ==
    /\ pc = "note_ret"
    /\ DOMAIN final_claude_lines = Paths
    /\ Len(NoteFileLines) = 2
    /\ NoteFileLines[1] = << "a", ":", " ", " ", " ", "1", "-", "2" >>
    /\ NoteFileLines[2] = << "b", "b", ":", " ", " ", "2" >>

----------------------------------------------------------------------------
(* Claims about parse_claude_data (SpecParse, and Spec for a run of main). *)

\* A token is N: a non-empty run of digits.
IsNumber(t) == t # << >> /\ \A i \in 1..Len(t) : t[i] \in Digits

\* The places where a token reads as A-B.
RangeDashes(t) ==
    { k \in 1..Len(t) :
        /\ t[k] = "-"
        /\ IsNumber(SubSeq(t, 1, k - 1))
        /\ IsNumber(SubSeq(t, k + 1, Len(t))) }

WellFormed(t) == IsNumber(t) \/ RangeDashes(t) # {}

\* The line numbers a well-formed token names: N, or A..B inclusive.
TokenLines(t) ==
    IF IsNumber(t) THEN { DigitsValue(t, 0) }
    ELSE IF RangeDashes(t) # {}
    THEN LET k == CHOOSE x \in RangeDashes(t) : TRUE
         IN  DigitsValue(SubSeq(t, 1, k - 1), 0)..DigitsValue(SubSeq(t, k + 1, Len(t)), 0)
    ELSE {}

\* The tokens of one record line, each with the path of the line; none when
\* the line does not have three '|'-separated fields.
LineTokens(line) ==
    LET fields == split(strip(line), "|")
    IN  IF Len(fields) # 3 THEN << >>
        ELSE LET toks == split(fields[3], ",")
             IN  [ i \in 1..Len(toks) |-> [ path |-> fields[2], tok |-> toks[i] ] ]

\* The tokens of all record lines read, in the order of the file.
RECURSIVE AllTokens(_)
AllTokens(ls) ==
    IF ls = << >> THEN << >> ELSE LineTokens(Head(ls)) \o AllTokens(Tail(ls))

MalformedEntry(e) == ~WellFormed(e.tok)

\* The set a mapping holds for a path, empty when the path is no key.
LinesOf(d, path) == IF path \in DOMAIN d THEN d[path] ELSE {}

\* The parser ended in one of its two error returns.
ParseFailed ==
    \E i \in 1..Len(stdout) : stdout[i].fmt \in { ErrNotFound, ErrParse }

\* C7: while the file is read, and when it has been read to its end, every
\* malformed token read so far has produced exactly one warning (in the order
\* of the file, naming the token and its path) and no line number, and every
\* well-formed token read so far, before or after a malformed one, on the
\* same or on a later record line, has its line numbers in the set of its
\* path: that set is exactly the union over the well-formed tokens.
C7_MalformedTokenSkipped ==
    (pc \in { "parse_read", "parse_ret" } /\ ~ParseFailed) =>
        LET toks == AllTokens(data)
            bad == SelectSeq(toks, MalformedEntry)
        IN  /\ Len(stdout) = Len(bad)
            /\ \A i \in 1..Len(bad) :
                  /\ stdout[i].fmt \in { WarnRange, WarnNumber }
                  /\ stdout[i].args = << bad[i].tok, bad[i].path >>
            /\ \A path \in Paths \cup DOMAIN claude_files :
                  LinesOf(claude_files, path) =
                      UNION { TokenLines(toks[i].tok) :
                                i \in { j \in 1..Len(toks) : toks[j].path = path } }

\* 'h|a|10-,7' then 'h|bb|x,1-2-3,5' were read to the end of the file: three
\* warnings, and the numbers after the malformed tokens are in the record.
C7_Witness ==
    /\ pc = "parse_ret"
    /\ data = << << "h", "|", "a", "|", "1", "0", "-", ",", "7", "\n" >>,
                 << "h", "|", "b", "b", "|", "x", ",", "1", "-", "2", "-", "3", ",", "5", "\n" >> >>
    /\ Len(stdout) = 3
    /\ stdout[1] = Msg(WarnRange, << << "1", "0", "-" >>, PathA >>)
    /\ claude_files = (PathA :> { 7 }) @@ (PathBB :> { 5 })

\* C10: every key of the mapping parse_claude_data builds maps to a
\* non-empty set, so a path map_claude_to_final credits has at least one
\* valid line number in the contribution data.
C10_KeysHaveLines ==
    /\ \A path \in DOMAIN claude_files : claude_files[path] # {}
    /\ \A path \in DOMAIN final_claude_lines :
          \E i \in 1..Len(AllTokens(data)) :
             /\ AllTokens(data)[i].path = path
             /\ TokenLines(AllTokens(data)[i].tok) # {}

\* C3: nothing parse_claude_data prints (the two errors, the two warnings)
\* is written to standard output.
C3_ParserSilentOnStdout ==
    \A i \in 1..Len(stdout) :
        stdout[i].fmt \notin { ErrNotFound, ErrParse, WarnRange, WarnNumber }

----------------------------------------------------------------------------
(* Claims about get_final_diff_lines (SpecDiff).                           *)

IsHeaderLine(l) == startswith(l, << "+", "+", "+" >>)

IsHunkLine(l) == startswith(l, << "@", "@" >>)

\* The path in force when line k of the output is scanned: the text past the
\* 6-character prefix of the most recent '+++' line before k; None when
\* there is no such line or that text is empty.
EstablishedPath(k) ==
    LET headers == { j \in 1..(k - 1) : j <= Len(diff_out) /\ IsHeaderLine(diff_out[j]) }
    IN  IF headers = {} THEN None
        ELSE LET last == Max(headers)
             IN  [ i \in 1..(Len(diff_out[last]) - 6) |-> diff_out[last][i + 6] ]

\* The lines [new_start, new_start + count) of a matching hunk line, count
\* being 1 when it is omitted.
HunkSpan(l) ==
    LET m == re_search(l)
        new_start == DigitsValue(m.g1, 0)
        count == IF m.g2 = None THEN 1 ELSE DigitsValue(m.g2, 0)
    IN  { n \in new_start..(new_start + count) : n < new_start + count }

\* The lines the hunks read so far give to a path.
HunkLinesOf(path) ==
    UNION { HunkSpan(diff_out[k]) :
              k \in { j \in 1..Len(diff_out) :
                        /\ IsHunkLine(diff_out[j])
                        /\ re_search(diff_out[j]).matched
                        /\ EstablishedPath(j) # None
                        /\ EstablishedPath(j) = path } }

\* C9: while the output is scanned and when it has been scanned, the current
\* file is the path the most recent '+++' line established (None before the
\* first one and after one with nothing past its prefix), and the set of every
\* path is exactly the union of [new_start, new_start + count) over the
\* matching '@@' lines scanned while that path was the current file; so a
\* hunk adds to no other file, a hunk with no current file adds nothing, and
\* the other lines change nothing.
C9_DiffLinesAreHunkUnion ==
    pc \in { "diff_scan", "diff_ret" } =>
        /\ pc = "diff_scan" => current_file = EstablishedPath(Len(diff_out) + 1)
        /\ \A path \in Paths \cup DOMAIN final_lines :
              LinesOf(final_lines, path) = HunkLinesOf(path)
        /\ None \notin DOMAIN final_lines

\* '+++ b/a', '@@ -1,2 +10,3 @@', '+++ b/bb', '@@ -5 +7 @@' were scanned.
C9_Witness ==
    /\ pc = "diff_ret"
    /\ diff_out =
         << << "+", "+", "+", " ", "b", "/", "a" >>,
            << "@", "@", " ", "-", "1", ",", "2", " ", "+", "1", "0", ",", "3", " ", "@", "@" >>,
            << "+", "+", "+", " ", "b", "/", "b", "b" >>,
            << "@", "@", " ", "-", "5", " ", "+", "7", " ", "@", "@" >> >>
    /\ final_lines = (PathA :> { 10, 11, 12 }) @@ (PathBB :> { 7 })

\* C4: every '@@' line scanned while a current file is known and that does
\* not match the hunk pattern has a warning naming it, on one of the two
\* streams.
C4_BadHunkHeaderWarned ==
    \A k \in 1..Len(diff_out) :
        ( /\ IsHunkLine(diff_out[k])
          /\ EstablishedPath(k) # None
          /\ ~re_search(diff_out[k]).matched )
        => \E i \in 1..Len(stdout \o stderr) :
              /\ (stdout \o stderr)[i].fmt = WarnHunk
              /\ (stdout \o stderr)[i].args = << diff_out[k] >>

----------------------------------------------------------------------------
(* Claim about a run of main (Spec).                                       *)

Printed(fmt) == \E i \in 1..Len(stdout) : stdout[i].fmt = fmt

HeaderOnlyNote == Header1 \o << "\n" >> \o Header2

\* The positions of a run that goes on: in each of them a step of main or of
\* the function it has called is possible whatever the state (OpenDataFile,
\* EndOfData, MainAfterParse, RunDiff, EndOfDiff, MainMap and MainNote are
\* guarded by the position alone).
Running ==
    { "main", "parse_open", "parse_read", "parse_ret", "diff_run", "diff_scan",
      "diff_ret", "mapped" }

\* C5: only the argument-count check ends a run with a failure status; a
\* run with at least 3 arguments is never aborted: until it has printed the
\* note it is at a position from which it goes on, and it ends by printing the
\* note, with status 0, whatever was reported on the way (missing or
\* unreadable data file, malformed token, failed diff, '@@' line without a
\* match); and when the data file was missing or the diff failed, the mapping
\* concerned is empty and the note is the two header lines alone.
C5_NonFatalErrorsDegrade ==
    /\ exit_status \in { -1, 0, 1 }
    /\ exit_status = 1 => (argc < 3 /\ pc = "exit")
    /\ argc >= 3 => pc \in Running \cup { "done" }
    /\ pc \in Running => exit_status = -1
    /\ Printed(ErrNotFound) => claude_files = EmptyMap
    /\ Printed(ErrDiff) => final_lines = EmptyMap
    /\ pc = "done" =>
          /\ argc >= 3
          /\ exit_status = 0
          /\ stdout[Len(stdout)] = Msg(NoteText, << note_content >>)
          /\ note_content = generate_claude_note(final_claude_lines)
          /\ (Printed(ErrNotFound) \/ Printed(ErrDiff)) => note_content = HeaderOnlyNote

\* A run that reported a malformed token and then a failed diff has printed
\* the note.
C5_Witness ==
    /\ pc = "done"
    /\ Printed(WarnRange)
    /\ Printed(ErrDiff)
    /\ exit_status = 0
    /\ note_content = HeaderOnlyNote

====
